---- MODULE Spec2Model ----
(***************************************************************************)
(* Model of subsync/media.py: Media.mfcc, Subtitle.labels,                 *)
(* Subtitle.logloss, Subtitle.sync and the time/frame helpers.             *)
(*                                                                         *)
(* Units.  Times are integers in milliseconds (the resolution of an .srt   *)
(* timestamp), so "seconds" s of the source is the integer 1000*s here.    *)
(* Probabilities are integers in quarters (0, 2, 4 stand for 0, 1/2, 1).   *)
(* A loss is an integer in units of 1/n bit, n being the length of the     *)
(* scored region, which is the same for every entry of one loss curve: the *)
(* sum over the region of -log2 of the probability given to the label.     *)
(* The comparisons of sync (least loss, min < mean - stddev) do not depend *)
(* on the unit.  Arithmetic is exact, not floating point.                  *)
(***************************************************************************)
EXTENDS Integers, Sequences, FiniteSets, TLC

(* ---------------------------------------------------------------- bounds *)

MaxFrames == 7

MaxEntries == 2

MaxBlocks == 2

MaxCalls == 3

(* ------------------------------------------------------ program constants *)

FREQ == 16000

HOP_LEN == 512

N_MFCC == 13

\* Media.LEN_MFCC = HOP_LEN/FREQ seconds, here in milliseconds (32).
LEN_MFCC == (HOP_LEN * 1000) \div FREQ

(* ------------------------------------------------------- python semantics *)

Min2(a, b) == IF a < b THEN a ELSE b

Max2(a, b) == IF a > b THEN a ELSE b

\* int(num/den) for den > 0: truncation toward zero.
PyInt(num, den) == IF num >= 0 THEN num \div den ELSE -((-num) \div den)

\* round(num/den) for den > 0: Python 3 rounds halves to the even integer.

PyRound(num, den) ==
    LET q == num \div den
        r == num % den
    IN  IF 2 * r < den THEN q
        ELSE IF 2 * r > den THEN q + 1
        ELSE IF q % 2 = 0 THEN q ELSE q + 1

\* Normalisation of one bound of a slice a[lo:hi] of a sequence of length n.
PyBound(i, n) == IF i < 0 THEN Max2(i + n, 0) ELSE Min2(i, n)

\* a[lo:hi] of a 0-based array held in a 1-based sequence.
PySlice(a, lo, hi) ==
    IF PyBound(lo, Len(a)) < PyBound(hi, Len(a))
    THEN SubSeq(a, PyBound(lo, Len(a)) + 1, PyBound(hi, Len(a)))
    ELSE <<>>

\* A slip: the rotation goes the other way.
np_rollLeft(a, shift) ==
    IF Len(a) = 0 THEN a
    ELSE SubSeq(a, (shift % Len(a)) + 1, Len(a)) \o SubSeq(a, 1, shift % Len(a))

\* np.roll(a, shift): element j of the result is a[(j - shift) mod n], that
\* is, the last (shift mod n) elements come first.
np_roll(a, shift) ==
    IF Len(a) = 0 THEN a
    ELSE SubSeq(a, Len(a) - (shift % Len(a)) + 1, Len(a))
            \o SubSeq(a, 1, Len(a) - (shift % Len(a)))

(* ------------------------------------------------ pysrt.SubRipTime fields *)
\* A timestamp is its ordinal in milliseconds; the fields read by timeToSec
\* are derived from it as pysrt's TimeItemDescriptor does.

Milliseconds(t) == t % 1000

Seconds(t) == PyInt(t % 60000, 1000)

Minutes(t) == PyInt(t % 3600000, 60000)

Hours(t) == PyInt(t, 3600000)

(* ------------------------------------------------------- module functions *)

\* timeToSec, in milliseconds.
timeToSec(t) ==
    Milliseconds(t) + Seconds(t) * 1000 + Minutes(t) * 60 * 1000
        + Hours(t) * 60 * 60 * 1000

\* round(timeToSec(t)/(hop_len/freq))

timeToPos(t) == PyRound(timeToSec(t), LEN_MFCC)

\* A slip: round() for int().
secondsToBlocksRounded(s) == PyRound(s, LEN_MFCC)

\* int(float(s)/(hop_len/freq)), s in milliseconds.

secondsToBlocks(s) == PyInt(s, LEN_MFCC)

\* A slip: freq/hop_len for hop_len/freq.
blocksToSecondsSwapped(h) == (h * FREQ * 1000) \div HOP_LEN

\* float(h)*(hop_len/freq), in milliseconds.
blocksToSeconds(h) == (h * HOP_LEN * 1000) \div FREQ

(* ----------------------------------------------------- sequence helpers *)

RECURSIVE SumSeq(_)
SumSeq(s) == IF s = <<>> THEN 0 ELSE Head(s) + SumSeq(Tail(s))

\* np.min(y) of a non-empty array.
np_min(y) == CHOOSE v \in {y[i] : i \in DOMAIN y} : \A j \in DOMAIN y : v <= y[j]

\* A slip: the last index of the minimum.
np_argminLast(y) ==
    (CHOOSE i \in DOMAIN y :
        /\ \A j \in DOMAIN y : y[i] <= y[j]
        /\ \A j \in DOMAIN y : j > i => y[j] > y[i]) - 1

\* np.argmin(y) of a non-empty array, 0-based: the first index of the minimum.
np_argmin(y) ==
    (CHOOSE i \in DOMAIN y :
        /\ \A j \in DOMAIN y : y[i] <= y[j]
        /\ \A j \in DOMAIN y : j < i => y[j] > y[i]) - 1

(* ------------------------------------------------------- Subtitle.labels *)

None == [kind |-> "None", data |-> <<>>]

\* The class attribute Media.mfcc: the method itself, until mfcc() rebinds it.
Method == [kind |-> "method", data |-> <<>>]

ndarray(m) == [kind |-> "ndarray", data |-> m]

Raise(e) == [err |-> e, value |-> <<>>]

Return(v) == [err |-> "none", value |-> v]

\* for i in range(start, end): if i < len(labels): labels[i] = 1
\* (start >= 0 for every timestamp whose hours field is not negative).
MarkRange(labels, start, end) ==
    [k \in 1..Len(labels) |->
        IF start <= k - 1 /\ k - 1 < end THEN 1 ELSE labels[k]]

\* A slip: the end frame itself is left out.
MarkSubNoPad(labels, sub) ==
    MarkRange(labels, timeToPos(sub.start), timeToPos(sub.end))

\* start = timeToPos(sub.start); end = timeToPos(sub.end)+1
MarkSub(labels, sub) ==
    MarkRange(labels, timeToPos(sub.start), timeToPos(sub.end) + 1)

RECURSIVE MarkSubs(_, _)
MarkSubs(labels, subs) ==
    IF subs = <<>> THEN labels
    ELSE MarkSubs(MarkSub(labels, Head(subs)), Tail(subs))

\* A slip: the length of the matrix (its coefficient rows), not of a row.
labelsRows(media_mfcc, subs) ==
    IF media_mfcc.kind = "None"
    THEN Raise("RuntimeError")
    ELSE IF media_mfcc.kind = "method"
    THEN Raise("TypeError")
    ELSE Return(MarkSubs([k \in 1..N_MFCC |-> 0], subs))

\* Subtitle.labels(), given the value of self.media.mfcc and self.subs.
\* len(self.media.mfcc[0]) is the number of columns (frames) of the matrix;
\* subscripting the bound method raises TypeError.
labels(media_mfcc, subs) ==
    IF media_mfcc.kind = "None"
    THEN Raise("RuntimeError")
    ELSE IF media_mfcc.kind = "method"
    THEN Raise("TypeError")
    ELSE LET samples == Len(media_mfcc.data)
         IN  Return(MarkSubs([k \in 1..samples |-> 0], subs))

(* ------------------------------------------------------ Subtitle.logloss *)

\* -log2 of the clipped probability q/4 (q in {0, 2, 4}), rounded: sklearn
\* clips to [1e-15, 1 - 1e-15], and -log2(1e-15) = 49.8.
NegLog(q) == IF q = 0 THEN 50 ELSE IF q = 2 THEN 1 ELSE 0

\* Cost of one sample with true label y and predicted probability q/4 of 1.
Cost(y, q) == IF y = 1 THEN NegLog(q) ELSE NegLog(4 - q)

\* sklearn.metrics.log_loss(y_true, y_pred) without the labels argument:
\* ValueError on empty input and when y_true holds a single class.
log_loss(y_true, y_pred) ==
    IF Len(y_true) = 0 \/ Len(y_true) # Len(y_pred)
    THEN Raise("ValueError")
    ELSE IF Cardinality({y_true[k] : k \in DOMAIN y_true}) < 2
    THEN Raise("ValueError")
    ELSE Return(SumSeq([k \in DOMAIN y_true |-> Cost(y_true[k], y_pred[k])]))

\* One pass of the loop body of Subtitle.logloss for one offset, given the
\* scored label region snippet[blocks:-blocks] and its loss; r holds what the
\* loop has filled so far.  A raising log_loss ends the loop.
LoopBody(r, offset, snippet, loss) ==
    IF loss.err # "none"
    THEN [r EXCEPT !.err = loss.err, !.scored = Append(@, snippet)]
    ELSE [r EXCEPT !.indices = Append(@, offset),
                   !.logloss = Append(@, loss.value),
                   !.scored = Append(@, snippet)]

\* for i, offset in enumerate(range(-blocks, blocks)): ...
RECURSIVE Loop(_, _, _, _, _)
Loop(r, offset, blocks, pred, actual) ==
    IF offset >= blocks \/ r.err # "none" THEN r
    ELSE Loop(LoopBody(r, offset,
                       PySlice(np_roll(actual, offset), blocks, -blocks),
                       log_loss(PySlice(np_roll(actual, offset), blocks, -blocks),
                                PySlice(pred, blocks, -blocks))),
              offset + 1, blocks, pred, actual)

LoopFrom(blocks, pred, actual) ==
    Loop([err |-> "none", indices |-> <<>>, logloss |-> <<>>, scored |-> <<>>],
         -blocks, blocks, pred, actual)

\* Subtitle.logloss(pred, actual, margin): the offsets and their losses;
\* scored[i] is the label region handed to log_loss for the i-th offset.
logloss(pred, actual, margin) == LoopFrom(secondsToBlocks(margin), pred, actual)

(* ------------------------------------------------------------ input sets *)

\* Classes of feature columns, as far as a predictor tells them apart.
Cols == {0, 1}

\* Probabilities a predictor emits, in quarters.
Levels == {0, 2, 4}

\* Feature matrices: one column per frame.
Matrices == UNION {[1..n -> Cols] : n \in 0..MaxFrames}

\* Predictors: net.predict scores every frame (row of mfcc.T) on its own.
\* Class 1 is the class a predictor scores higher; as the matrices range
\* over all columns, these predictors yield every prediction sequence that
\* takes at most two values.
Nets == {net \in [Cols -> Levels] : net[0] < net[1]}

\* The margins (ms) giving 0..MaxBlocks blocks; odd ones are not multiples
\* of a frame.
Margins == {b * LEN_MFCC + (IF b % 2 = 1 THEN 18 ELSE 0) : b \in 0..MaxBlocks}

\* Subtitle entries (start, end in ms).  48/32 = 1.5 and 208/32 = 6.5 are
\* rounding ties; 3661001 is 1 h 1 min 1 s 1 ms.
Entries ==
    << [start |-> 48, end |-> 100],
       [start |-> 100, end |-> 100],
       [start |-> 160, end |-> 160],
       [start |-> 160, end |-> 208],
       [start |-> 208, end |-> 3661001] >>

\* Tracks: up to MaxEntries entries in the chronological order of the file.
Tracks ==
    LET Picks == UNION {[1..n -> DOMAIN Entries] : n \in 0..MaxEntries}
        Sorted == {p \in Picks : \A i, j \in DOMAIN p : i < j => p[i] < p[j]}
    IN  {[i \in DOMAIN p |-> Entries[p[i]]] : p \in Sorted}

\* Times (ms) of the entries given to labels(): 16, 48 and 208 are rounding
\* ties (frames 0.5, 1.5, 6.5); 3661001 is 1 h 1 min 1 s 1 ms.
TimeGrid == {0, 16, 48, 100, 208, 3661001}

GridEntries == {[start |-> a, end |-> b] : a, b \in TimeGrid}

GridTracks == UNION {[1..n -> GridEntries] : n \in 0..MaxEntries}

(* ------------------------------------------------------------------ state *)

VARIABLES
    mfcc,    \* the attribute self.mfcc of the Media
    tmp,     \* the temporary audio files on disk (named by the call that made them)
    subs,    \* Subtitle.subs: the entries in memory
    file,    \* the entries stored in the subtitle file
    writes,  \* number of times the subtitle file was written
    calls,   \* number of calls made so far
    ran,     \* number of calls of mfcc() made so far
    ret      \* record of the last call: arguments, intermediate values, outcome

vars == <<mfcc, tmp, subs, file, writes, calls, ran, ret>>

\* What pysrt writes for the entries: a negative time is written as zero.
Saved(track) ==
    [i \in DOMAIN track |->
        [start |-> Max2(track[i].start, 0), end |-> Max2(track[i].end, 0)]]

\* SubRipFile.shift(seconds=secs): every start and end moves by secs (ms).
Shifted(track, secs) ==
    [i \in DOMAIN track |->
        [start |-> track[i].start + secs, end |-> track[i].end + secs]]

NoCall ==
    [op |-> "none", err |-> "none", media |-> Method, matrix |-> <<>>,
     transcoded |-> FALSE, made |-> 0,
     subs0 |-> <<>>, file0 |-> <<>>, writes0 |-> 0,
     margin |-> 0, safe |-> FALSE, plot |-> FALSE, plotted |-> FALSE,
     labels |-> <<>>, pred |-> <<>>, curve |-> FALSE,
     x |-> <<>>, y |-> <<>>, scored |-> <<>>,
     accept |-> FALSE, secs |-> 0]

\* Media(filepath) and Subtitle(media, path) just constructed, for a
\* subtitle file holding the given track.
Fresh(track) ==
    /\ mfcc = Method
    /\ tmp = {}
    /\ subs = track
    /\ file = track
    /\ writes = 0
    /\ calls = 0
    /\ ran = 0
    /\ ret = NoCall

(* ------------------------------------------------------------- Media.mfcc *)

\* Transcode(...).run(): whether the temporary output exists afterwards.
\* A successful run has produced it; a failed run may have left a part.
TranscodeOutputs(ok) == IF ok THEN {TRUE} ELSE {TRUE, FALSE}

\* Media.mfcc().  Once mfcc() has stored the matrix in self.mfcc, the
\* attribute hides the method and media.mfcc() calls the array: TypeError.
Mfcc ==
    LET id == calls + 1
        call == [NoCall EXCEPT !.op = "mfcc", !.media = mfcc, !.made = id]
    IN  /\ calls' = id
        /\ ran' = ran + 1
        /\ UNCHANGED <<subs, file, writes>>
        /\ IF mfcc.kind # "method"
           THEN /\ ret' = [call EXCEPT !.err = "TypeError", !.made = 0]
                /\ UNCHANGED <<mfcc, tmp>>
           ELSE \E step \in {"run", "load", "feature", "done"} :
                   IF step = "run"
                   THEN \E out \in TranscodeOutputs(FALSE) :
                           /\ tmp' = IF out THEN tmp \cup {id} ELSE tmp
                           /\ ret' = [call EXCEPT !.err = "RuntimeError"]
                           /\ UNCHANGED mfcc
                   ELSE IF step \in {"load", "feature"}
                   THEN \E out \in TranscodeOutputs(TRUE) :
                           /\ tmp' = IF out THEN tmp \cup {id} ELSE tmp
                           /\ ret' = [call EXCEPT !.err = "Exception",
                                                  !.transcoded = TRUE]
                           /\ UNCHANGED mfcc
                   ELSE \E m \in Matrices :
                           /\ mfcc' = ndarray(m)
                           /\ tmp' = tmp
                           /\ ret' = [call EXCEPT !.transcoded = TRUE,
                                                  !.matrix = m]

(* -------------------------------------------------------- Subtitle.labels *)

Labels ==
    LET r == labels(mfcc, subs)
    IN  /\ calls' = calls + 1
        /\ ret' = [NoCall EXCEPT !.op = "labels", !.media = mfcc,
                                 !.subs0 = subs, !.file0 = file,
                                 !.writes0 = writes,
                                 !.err = r.err, !.labels = r.value]
        /\ UNCHANGED <<mfcc, tmp, subs, file, writes, ran>>

(* ------------------------------------------------------- Subtitle.logloss *)

LoglossReturn(pred, actual, margin, r) ==
    /\ calls' = calls + 1
    /\ ret' = [NoCall EXCEPT !.op = "logloss", !.media = mfcc,
                             !.subs0 = subs, !.file0 = file,
                             !.writes0 = writes,
                             !.margin = margin, !.pred = pred,
                             !.labels = actual, !.err = r.err,
                             !.curve = (r.err = "none"),
                             !.x = IF r.err = "none" THEN r.indices ELSE <<>>,
                             !.y = IF r.err = "none" THEN r.logloss ELSE <<>>,
                             !.scored = r.scored]
    /\ UNCHANGED <<mfcc, tmp, subs, file, writes, ran>>

Logloss(pred, actual, margin) ==
    LoglossReturn(pred, actual, margin, logloss(pred, actual, margin))

(* ---------------------------------------------------------- Subtitle.sync *)

\* Sum of the squares of n*(y[i] - mean), where n*mean = total.
RECURSIVE SumSqDev(_, _, _)
SumSqDev(y, n, total) ==
    IF y = <<>> THEN 0
    ELSE (n * Head(y) - total) * (n * Head(y) - total) + SumSqDev(Tail(y), n, total)

\* A slip: min <= mean - sd.
BelowOrEqual(n, total, ss, min) ==
    /\ total - n * min >= 0
    /\ ss <= n * (total - n * min) * (total - n * min)

\* min < mean - sd, given n = len(y), total = n*mean, ss = n^3 * sd^2:
\* mean - min = (total - n*min)/n >= 0, so the test is sd^2 < (mean - min)^2.
Below(n, total, ss, min) == ss < n * (total - n * min) * (total - n * min)

AcceptSum(y, total) == Below(Len(y), total, SumSqDev(y, Len(y), total), np_min(y))

\* accept = np.min(y) < mean - sd, with mean = np.mean(y) and
\* sd = np.std(y) = sqrt(mean(|y - mean|^2)), for a non-empty y.
Accept(y) == AcceptSum(y, SumSeq(y))

\* pred = net.predict(mfcc.T[..., np.newaxis]): one probability per frame.
Predict(net, matrix) == [k \in DOMAIN matrix |-> net[matrix[k]]]

\* if accept: shift and save; if plot: plot_logloss.
Decide(seen, accept, secs) ==
    IF accept
    THEN /\ subs' = Shifted(subs, secs)
         /\ file' = Saved(subs')
         /\ writes' = writes + 1
         /\ ret' = [seen EXCEPT !.accept = TRUE, !.secs = secs,
                                !.plotted = seen.plot]
    ELSE /\ ret' = [seen EXCEPT !.plotted = seen.plot]
         /\ UNCHANGED <<subs, file, writes>>

\* The part of sync after x, y = self.logloss(pred, labels, margin).
Scored(seen, r) ==
    IF r.err # "none"
    THEN /\ ret' = [seen EXCEPT !.err = r.err, !.scored = r.scored]
         /\ UNCHANGED <<subs, file, writes>>
    ELSE IF r.logloss = <<>>
    \* np.min (safe) or np.argmin (not safe) of an empty array
    THEN /\ ret' = [seen EXCEPT !.err = "ValueError", !.curve = TRUE]
         /\ UNCHANGED <<subs, file, writes>>
    ELSE Decide([seen EXCEPT !.curve = TRUE, !.x = r.indices,
                             !.y = r.logloss, !.scored = r.scored],
                IF seen.safe THEN Accept(r.logloss) ELSE TRUE,
                blocksToSeconds(r.indices[np_argmin(r.logloss) + 1]))

\* The part of sync after labels = self.labels().
Labelled(call, lab, pred) ==
    IF lab.err # "none"
    THEN /\ ret' = [call EXCEPT !.err = lab.err]
         /\ UNCHANGED <<subs, file, writes>>
    ELSE Scored([call EXCEPT !.matrix = mfcc.data, !.labels = lab.value,
                             !.pred = pred],
                logloss(pred, lab.value, call.margin))

Sync(net, safe, margin, plot) ==
    /\ calls' = calls + 1
    /\ UNCHANGED <<mfcc, tmp, ran>>
    /\ Labelled([NoCall EXCEPT !.op = "sync", !.media = mfcc,
                               !.subs0 = subs, !.file0 = file,
                               !.writes0 = writes, !.safe = safe,
                               !.margin = margin, !.plot = plot],
                labels(mfcc, subs),
                Predict(net, mfcc.data))

(* --------------------------------------------------------- specifications *)

\* Any sequence of up to MaxCalls calls on a fresh Media and Subtitle.
MfccCall == calls < MaxCalls /\ Mfcc

LabelsCall == calls < MaxCalls /\ Labels

SyncCall ==
    /\ calls < MaxCalls
    /\ \E net \in Nets, margin \in Margins, safe \in BOOLEAN, plot \in BOOLEAN :
          Sync(net, safe, margin, plot)

Next == MfccCall \/ LabelsCall \/ SyncCall

\* The subtitle file holds two entries, covering frames 2..3 and 5..6.
Init == Fresh(<<Entries[1], Entries[4]>>)

Spec == Init /\ [][Next]_vars

\* The state in which mfcc() has returned matrix m on a fresh Media whose
\* subtitle file holds the given track.
Analysed(m, track) ==
    /\ mfcc = ndarray(m)
    /\ ret = [NoCall EXCEPT !.op = "mfcc", !.media = Method, !.made = 1,
                            !.transcoded = TRUE, !.matrix = m]
    /\ tmp = {}
    /\ subs = track
    /\ file = track
    /\ writes = 0
    /\ calls = 1
    /\ ran = 1

\* One sync() call on an analysed Media.
InitSync == \E m \in Matrices, track \in Tracks : Analysed(m, track)

SyncOnce ==
    /\ ret.op = "mfcc"
    /\ \E net \in Nets, margin \in Margins, safe \in BOOLEAN, plot \in BOOLEAN :
          Sync(net, safe, margin, plot)

NextSync == SyncOnce

SpecSync == InitSync /\ [][NextSync]_vars

\* One labels() call on an analysed Media, for every track of up to
\* MaxEntries entries over the grid of times, in any order, also entries
\* that end before they start.
InitLabels ==
    \E n \in 0..MaxFrames, track \in GridTracks :
        Analysed([k \in 1..n |-> 0], track)

LabelsOnce == ret.op = "mfcc" /\ Labels

NextLabels == LabelsOnce

SpecLabels == InitLabels /\ [][NextLabels]_vars

\* One logloss() call, on any label and prediction sequences of one length.
InitLogloss == Fresh(<<>>)

LoglossOnce ==
    /\ ret.op = "none"
    /\ \E n \in 0..MaxFrames :
          \E actual \in [1..n -> {0, 1}], pred \in [1..n -> {0, 4}],
             margin \in Margins :
                Logloss(pred, actual, margin)

NextLogloss == LoglossOnce

SpecLogloss == InitLogloss /\ [][NextLogloss]_vars

(* ------------------------------------------------------------- properties *)

\* C1: whenever a call of Media.mfcc() has ended, normally or by a failure
\* of the load or feature step after the transcoder produced its output, the
\* temporary audio file of that call does not exist.
TempFileRemoved ==
    (ret.op = "mfcc" /\ ret.transcoded) => ret.made \notin tmp

\* C1, the failing case: the load or feature step raised and the file stays.
TempFileLeaked ==
    /\ ret.op = "mfcc"
    /\ ret.transcoded
    /\ ret.err # "none"
    /\ ret.made \in tmp

\* C2: labels() or sync() on a Media whose mfcc() was never run fails with
\* the RuntimeError of the precondition, and yields no label sequence, no
\* shift and no write of the file.
PreconditionError ==
    (ret.op \in {"labels", "sync"} /\ ran = 0) =>
        /\ ret.err = "RuntimeError"
        /\ ret.labels = <<>>
        /\ ~ret.accept
        /\ subs = ret.subs0
        /\ file = ret.file0
        /\ writes = ret.writes0

\* C2, what the code does instead: the call fails, but with the TypeError of
\* subscripting the method; still no labels, no shift, no write.
PreconditionTypeError ==
    (ret.op \in {"labels", "sync"} /\ ran = 0) =>
        /\ ret.err = "TypeError"
        /\ ret.labels = <<>>
        /\ ~ret.accept
        /\ subs = ret.subs0
        /\ file = ret.file0
        /\ writes = ret.writes0

\* C9: once mfcc() has produced the matrix, every later call on the Media
\* obtains that same cached matrix without failing (sync() reads it, a
\* further mfcc() returns it), and no call modifies it.
CachedMatrixReused ==
    ret.media.kind = "ndarray" =>
        /\ mfcc = ret.media
        /\ ret.op = "sync" =>
              /\ ret.err \notin {"TypeError", "RuntimeError"}
              /\ ret.matrix = ret.media.data
        /\ ret.op = "mfcc" =>
              /\ ret.err = "none"
              /\ ret.matrix = ret.media.data

\* C9, the part the code keeps: sync() and labels() read the cached matrix
\* and leave it as it was.
CachedMatrixKept ==
    (ret.media.kind = "ndarray" /\ ret.op \in {"sync", "labels"}) =>
        /\ mfcc = ret.media
        /\ ret.err \notin {"TypeError", "RuntimeError"}
        /\ ret.op = "sync" => ret.matrix = ret.media.data

RoundsAtMost(t, i) ==
    \/ 2 * t < (2 * i + 1) * LEN_MFCC
    \/ 2 * t = (2 * i + 1) * LEN_MFCC /\ i % 2 = 0

RoundsAtLeast(t, i) ==
    \/ 2 * t > (2 * i - 1) * LEN_MFCC
    \/ 2 * t = (2 * i - 1) * LEN_MFCC /\ i % 2 = 0

BlocksOf(margin) ==
    CHOOSE b \in 0..margin : b * LEN_MFCC <= margin /\ margin < (b + 1) * LEN_MFCC

\* The loss of offset o over the region blocks <= j < N - blocks, the label
\* at j being the one that the rotation by o brings there.
RefLoss(pred, actual, b, o) ==
    SumSeq([k \in 1..(Len(actual) - 2 * b) |->
               Cost(actual[((b + k - 1 - o) % Len(actual)) + 1], pred[b + k])])

\* C6: logloss() returns two sequences of exactly 2*blocks entries, the
\* offsets being -blocks, ..., blocks-1 in this order and entry i of the
\* losses being the loss of offset i - blocks.
ShiftSearchSymmetry ==
    (ret.op = "logloss" /\ ret.err = "none") =>
        /\ Len(ret.x) = 2 * BlocksOf(ret.margin)
        /\ Len(ret.y) = 2 * BlocksOf(ret.margin)
        /\ \A i \in 1..(2 * BlocksOf(ret.margin)) :
              /\ ret.x[i] = i - 1 - BlocksOf(ret.margin)
              /\ ret.y[i] = RefLoss(ret.pred, ret.labels,
                                    BlocksOf(ret.margin), ret.x[i])

\* C6, its case: a margin of 50 ms, which holds one frame and a part of the
\* next, gives the offsets -1 and 0.
ShiftSearchOddMargin ==
    /\ ret.op = "logloss"
    /\ ret.err = "none"
    /\ ret.margin = 50
    /\ ret.x = <<-1, 0>>
    /\ Len(ret.y) = 2

\* C10: for N > 2*blocks, every offset o and every index j of the scored
\* region blocks <= j < N - blocks, the rotated label at j is actual[j - o]
\* with 0 <= j - o < N, and the scored region has N - 2*blocks elements for
\* every offset.
ScoredRegionUnwrapped ==
    (ret.op = "logloss" /\ Len(ret.labels) > 2 * BlocksOf(ret.margin)) =>
        \A i \in DOMAIN ret.scored :
            /\ Len(ret.scored[i]) = Len(ret.labels) - 2 * BlocksOf(ret.margin)
            /\ \A k \in DOMAIN ret.scored[i] :
                  /\ 2 * BlocksOf(ret.margin) + k - i >= 0
                  /\ 2 * BlocksOf(ret.margin) + k - i < Len(ret.labels)
                  /\ ret.scored[i][k] = ret.labels[2 * BlocksOf(ret.margin) + k - i + 1]

\* C10, its case: seven labels whose two ends differ from their neighbours,
\* scored for all four offsets of two blocks.
ScoredRegionAllOffsets ==
    /\ ret.op = "logloss"
    /\ ret.err = "none"
    /\ ret.labels = <<1, 0, 1, 1, 0, 0, 1>>
    /\ Len(ret.scored) = 4

\* The least value of a non-empty sequence, and whether it lies below
\* mean - stddev: with n = Len(y), S the sum and Q the sum of the squares,
\* stddev^2 = Q/n - (S/n)^2 and mean - min = (S - n*min)/n.
LeastOf(y) == CHOOSE v \in {y[i] : i \in DOMAIN y} : \A j \in DOMAIN y : v <= y[j]

SumOfSquares(y) == SumSeq([i \in DOMAIN y |-> y[i] * y[i]])

StandsOut(y) ==
    Len(y) * SumOfSquares(y) - SumSeq(y) * SumSeq(y)
        < (SumSeq(y) - Len(y) * LeastOf(y)) * (SumSeq(y) - Len(y) * LeastOf(y))

\* The last call was sync(), and its logloss() returned a non-empty curve.
SyncScored(safe) ==
    /\ ret.op = "sync"
    /\ ret.safe = safe
    /\ ret.curve
    /\ ret.y # <<>>

\* The entries in memory are those at the call's start moved by ms, and the
\* file was written once, with these entries (none before time zero).
ShiftedAndSaved(ms) ==
    /\ DOMAIN subs = DOMAIN ret.subs0
    /\ \A i \in DOMAIN subs :
          /\ subs[i].start = ret.subs0[i].start + ms
          /\ subs[i].end = ret.subs0[i].end + ms
    /\ writes = ret.writes0 + 1
    /\ DOMAIN file = DOMAIN subs
    /\ \A i \in DOMAIN file :
          /\ file[i].start = IF subs[i].start < 0 THEN 0 ELSE subs[i].start
          /\ file[i].end = IF subs[i].end < 0 THEN 0 ELSE subs[i].end

Untouched ==
    /\ subs = ret.subs0
    /\ file = ret.file0
    /\ writes = ret.writes0

\* Offset o is the first one, in the order -blocks .. blocks-1, among
\* those of least loss.
EarliestLeast(i) ==
    /\ i \in DOMAIN ret.y
    /\ \A j \in DOMAIN ret.y : ret.y[i] <= ret.y[j]
    /\ \A j \in DOMAIN ret.y : j < i => ret.y[j] > ret.y[i]

\* C3: with safe=True sync() shifts the entries and overwrites the file if
\* and only if min(loss) < mean(loss) - stddev(loss); otherwise the call
\* ends normally with the entries and the file unchanged.
SafeGate ==
    SyncScored(TRUE) =>
        /\ ret.err = "none"
        /\ StandsOut(ret.y) =>
              \E i \in DOMAIN ret.y :
                  /\ EarliestLeast(i)
                  /\ ShiftedAndSaved(ret.x[i] * LEN_MFCC)
        /\ ~StandsOut(ret.y) => Untouched

\* C3, its cases: a curve with one sharp minimum is accepted and the file
\* written; a curve whose minimum equals mean - stddev is rejected.
SafeGateAccepts ==
    /\ SyncScored(TRUE)
    /\ ret.y = <<100, 100, 0, 100>>
    /\ writes = 1

SafeGateRejectsTie ==
    /\ SyncScored(TRUE)
    /\ Len(ret.y) = 4
    /\ ret.y[1] # ret.y[2]
    /\ ~StandsOut(ret.y)
    /\ writes = 0

\* C4: with safe=False sync() accepts every loss curve: it shifts all
\* entries by offset * hop_length/sample_rate seconds, the offset being the
\* earliest one of least loss, and overwrites the file.
UnsafeAlwaysAccepts ==
    SyncScored(FALSE) =>
        /\ ret.err = "none"
        /\ \E i \in DOMAIN ret.y :
              /\ EarliestLeast(i)
              /\ ret.x[i] = i - 1 - BlocksOf(ret.margin)
              /\ ret.secs * FREQ = ret.x[i] * HOP_LEN * 1000
              /\ ShiftedAndSaved(ret.secs)

\* C4, its case: a curve that safe mode would reject, with its least loss
\* at two offsets, is accepted and the entries move by the earlier one.
UnsafeAcceptsTie ==
    /\ SyncScored(FALSE)
    /\ Len(ret.y) = 4
    /\ ~StandsOut(ret.y)
    /\ ret.y[1] = ret.y[3]
    /\ ret.y[2] > ret.y[1]
    /\ ret.secs = -64
    /\ writes = 1

\* The predictions are exactly the labels (probability 1 where the label is
\* 1, 0 where it is 0), and logloss() returned a non-empty curve.
AlignedScored ==
    /\ ret.op = "sync"
    /\ ret.curve
    /\ ret.y # <<>>
    /\ \A k \in DOMAIN ret.labels : ret.pred[k] = 4 * ret.labels[k]

\* The loss at offset 0 is the least of the curve.
ZeroIsLeast ==
    \A j \in DOMAIN ret.y : ret.y[BlocksOf(ret.margin) + 1] <= ret.y[j]

\* C5 as stated: if the predictions equal the labels, the loss at offset 0
\* is the minimum of the curve and the offset sync() selects is 0, so that
\* the subtitle is shifted by 0 seconds.
ZeroShiftSelected ==
    AlignedScored =>
        /\ ZeroIsLeast
        /\ ret.accept => (ret.secs = 0 /\ subs = ret.subs0)

\* C5 as amended: if the predictions equal the labels, the loss at offset 0
\* is the minimum of the curve, and the offset sync() selects is the
\* earliest one whose loss equals the loss at offset 0, which is 0 or a
\* negative offset.
ZeroShiftOrEarlierTie ==
    AlignedScored =>
        /\ ZeroIsLeast
        /\ ret.accept =>
              \E i \in DOMAIN ret.y :
                  /\ EarliestLeast(i)
                  /\ ret.y[i] = ret.y[BlocksOf(ret.margin) + 1]
                  /\ ret.x[i] <= 0
                  /\ ShiftedAndSaved(ret.x[i] * LEN_MFCC)

\* C5, its cases: aligned predictions whose curve has its only minimum at
\* offset 0, accepted in safe mode with a shift of 0; and aligned
\* predictions whose labels repeat with a period of two frames, for which
\* offset -2 is selected.
ZeroShiftAccepted ==
    /\ AlignedScored
    /\ ret.safe
    /\ ret.accept
    /\ ret.secs = 0
    /\ writes = 1

AlignedShiftedBack ==
    /\ AlignedScored
    /\ ret.accept
    /\ ret.secs < 0

====
